---- MODULE Spec2Model ----
(***************************************************************************)
(* A model of denova.os.command: run(), nice(), get_run_args(),            *)
(* format_output(), background() and wait_child(), and of                  *)
(* denova.django_addons.singleton: get_singleton() and save_singleton().   *)
(*                                                                         *)
(* Text is a sequence of one-character strings, a byte string a sequence   *)
(* of byte values.  A stream attribute (stdout, stderr, stderrout) is      *)
(* None, a byte string or text.                                            *)
(***************************************************************************)
EXTENDS Integers, Sequences, FiniteSets, TLC

VARIABLES
    command_args,   \* the positional arguments of the call being made
    kwargs,         \* its keyword arguments
    dirlist,        \* the directory listing glob() matches against
    child,          \* what the spawned foreground process does
    pc,             \* "call": the call is about to be made, "done": it is over
    ret,            \* what the call returned or raised
    procs,          \* the process table: the children background() spawned
    handles,        \* the Popen objects background() has returned
    waiting,        \* the pid wait_child() is blocked on, 0 when none
    last,           \* the last background()/wait_child() call and its outcome
    completed,      \* the object format_output() is applied to
    once,           \* that object as the first application left it
    applied,        \* how many times format_output() has been applied
    records,        \* the table of the model: the pks model.objects.all() yields
    dbcall          \* the get_singleton()/save_singleton() call and its outcome

vars == <<command_args, kwargs, dirlist, child, pc, ret,
          procs, handles, waiting, last, completed, once, applied,
          records, dbcall>>

runVars == <<command_args, kwargs, dirlist, child, pc, ret>>
bgVars == <<procs, handles, waiting, last>>
fmtVars == <<completed, once, applied>>
dbVars == <<records, dbcall>>

(***************************************************************************)
(* Bounds                                                                  *)
(***************************************************************************)
MaxArgs == 2        \* arguments of a get_run_args() call
MaxOut == 2         \* bytes a child writes to one stream
MaxExit == 2        \* largest exit status of a child
MaxProcs == 2       \* background() calls that spawn
MaxRecords == 2     \* records of the singleton's model
MaxTries == 3       \* largest maxtries of a save_singleton() call

(***************************************************************************)
(* Sequences                                                               *)
(***************************************************************************)
RECURSIVE Flatten(_)
Flatten(ss) == IF ss = <<>> THEN <<>> ELSE Head(ss) \o Flatten(Tail(ss))

RECURSIVE SeqsUpTo(_, _)
SeqsUpTo(S, n) ==
    IF n = 0 THEN {<<>>}
    ELSE LET shorter == SeqsUpTo(S, n - 1)
         IN  shorter \cup {Append(s, x) : s \in shorter, x \in S}

Range(s) == {s[i] : i \in 1..Len(s)}

(***************************************************************************)
(* str(): the arguments a caller passes are strings or integers            *)
(***************************************************************************)
StrArg(s) == [isInt |-> FALSE, s |-> s, n |-> 0]
IntArg(n) == [isInt |-> TRUE, s |-> <<>>, n |-> n]

DigitChars == <<"0", "1", "2", "3", "4", "5", "6", "7", "8", "9">>

RECURSIVE Digits(_)
Digits(n) ==
    IF n < 10 THEN <<DigitChars[n + 1]>>
    ELSE Append(Digits(n \div 10), DigitChars[(n % 10) + 1])

Str(arg) == IF arg.isInt THEN Digits(arg.n) ELSE arg.s

StrAll(args) == [i \in 1..Len(args) |-> Str(args[i])]

(***************************************************************************)
(* glob.glob() in one directory: '*' matches any run of characters, '?'    *)
(* any one character; the matches come in directory order.  The names and  *)
(* patterns of the model hold no '[', '/' or leading '.'.                  *)
(***************************************************************************)
RECURSIVE fnmatch(_, _)
fnmatch(name, pat) ==
    IF pat = <<>> THEN name = <<>>
    ELSE IF Head(pat) = "*"
         THEN \/ fnmatch(name, Tail(pat))
              \/ name # <<>> /\ fnmatch(Tail(name), pat)
    ELSE IF name = <<>> THEN FALSE
    ELSE IF Head(pat) = "?" THEN fnmatch(Tail(name), Tail(pat))
    ELSE Head(pat) = Head(name) /\ fnmatch(Tail(name), Tail(pat))

glob(pat, listing) == SelectSeq(listing, LAMBDA name : fnmatch(name, pat))

(***************************************************************************)
(* get_run_args()                                                          *)
(***************************************************************************)
NoKwargs == [k \in {} |-> "None"]

Has(kw, key) == key \in DOMAIN kw
Truthy(v) == v = "True"
Del(kw, key) == [k \in (DOMAIN kw) \ {key} |-> kw[k]]
Update(kw, more) ==
    [k \in (DOMAIN kw) \cup (DOMAIN more) |->
        IF k \in DOMAIN more THEN more[k] ELSE kw[k]]

startswith(s, c) == Len(s) >= 1 /\ s[1] = c
endswith(s, c) == Len(s) >= 1 /\ s[Len(s)] = c

\* only single quotes encase
encased_str_single_only(arg) == startswith(arg, "'") /\ endswith(arg, "'")

encased_str(arg) ==
    \/ startswith(arg, "\"") /\ endswith(arg, "\"")
    \/ startswith(arg, "'") /\ endswith(arg, "'")

has_wildcard(arg) == "*" \in Range(arg) \/ "?" \in Range(arg)

interactive_kwargs(kw) ==
    IF Has(kw, "interactive")
    THEN IF Truthy(kw["interactive"])
         THEN Update(Del(kw, "interactive"),
                     [stdin |-> "sys.stdin", stdout |-> "sys.stdout",
                      stderr |-> "sys.stderr"])
         ELSE Del(kw, "interactive")
    ELSE kw

globbing_of(kw) == IF Has(kw, "glob") THEN Truthy(kw["glob"]) ELSE TRUE

\* the words one argument adds to args, when a pattern without a match is kept
resolve_arg_keep_unmatched(arg, globbing, listing) ==
    IF has_wildcard(Str(arg)) /\ globbing /\ ~encased_str(Str(arg))
    THEN IF glob(Str(arg), listing) = <<>> THEN <<Str(arg)>>
         ELSE glob(Str(arg), listing)
    ELSE <<Str(arg)>>

\* the words one argument adds to args: the body of the loop
resolve_arg(arg, globbing, listing) ==
    IF has_wildcard(Str(arg))
    THEN IF globbing /\ ~encased_str(Str(arg))
         THEN glob(Str(arg), listing)
         ELSE <<Str(arg)>>
    ELSE <<Str(arg)>>

get_run_args(cargs, kw, listing) ==
    LET kw1 == interactive_kwargs(kw)
        globbing == globbing_of(kw1)
        kw2 == IF Has(kw1, "glob") THEN Del(kw1, "glob") ELSE kw1
    IN  [args |-> Flatten([i \in 1..Len(cargs) |->
                              resolve_arg(cargs[i], globbing, listing)]),
         kwargs |-> kw2]

(***************************************************************************)
(* Stream attributes, bytes.decode() and str.strip()                       *)
(***************************************************************************)
None == [t |-> "none", b |-> <<>>, s |-> <<>>]
Bytes(b) == [t |-> "bytes", b |-> b, s |-> <<>>]
Text(s) == [t |-> "str", b |-> <<>>, s |-> s]

Whitespace == {" ", "\t", "\n", "\r"}

\* UTF-8: the bytes below 128 are the ASCII characters, a byte 255 is in no
\* valid sequence
Decodable(b) == \A i \in 1..Len(b) : b[i] < 128

Chr(c) ==
    CASE c = 9 -> "\t"
      [] c = 10 -> "\n"
      [] c = 32 -> " "
      [] c = 101 -> "e"
      [] c = 111 -> "o"
      [] OTHER -> "x"

decode(b) == [i \in 1..Len(b) |-> Chr(b[i])]

RECURSIVE lstrip(_)
lstrip(s) ==
    IF s # <<>> /\ Head(s) \in Whitespace THEN lstrip(Tail(s)) ELSE s

RECURSIVE rstrip(_)
rstrip(s) ==
    IF s # <<>> /\ s[Len(s)] \in Whitespace
    THEN rstrip(SubSeq(s, 1, Len(s) - 1))
    ELSE s

strip(s) == rstrip(lstrip(s))

\* the text of a stream attribute that is not None: isinstance(str) or decode()
as_text(v) == IF v.t = "str" THEN v.s ELSE decode(v.b)
raises_decode(v) == v.t = "bytes" /\ ~Decodable(v.b)

(***************************************************************************)
(* format_output() and update_stderrout(): ok is FALSE when decode()       *)
(* raised UnicodeDecodeError, and obj is the object as it was left         *)
(***************************************************************************)
\* stderrout put together as stdout then stderr
format_output_stdout_first(result) ==
    LET r0 == [result EXCEPT !.stderrout = None]
        r1 == IF r0.stderr.t = "none" THEN r0
              ELSE [r0 EXCEPT !.stderr = Text(strip(as_text(r0.stderr))),
                              !.stderrout = Text(strip(as_text(r0.stderr)))]
        out == strip(as_text(r1.stdout))
        r2 == IF r1.stdout.t = "none" THEN r1
              ELSE [r1 EXCEPT !.stdout = Text(out),
                              !.stderrout =
                                  IF r1.stderr.t = "str" /\ r1.stderr.s # <<>>
                                  THEN Text(out \o r1.stderr.s)
                                  ELSE Text(out)]
    IN  IF raises_decode(r0.stderr) THEN [ok |-> FALSE, obj |-> r0]
        ELSE IF raises_decode(r1.stdout) THEN [ok |-> FALSE, obj |-> r1]
        ELSE [ok |-> TRUE, obj |-> r2]

\* text is stripped, decoded bytes are not
format_output_strip_text_only(res) ==
    LET fmt(v) == IF v.t = "str" THEN strip(v.s) ELSE decode(v.b)
        r0 == [res EXCEPT !.stderrout = None]
        r1 == IF r0.stderr.t = "none" THEN r0
              ELSE [r0 EXCEPT !.stderr = Text(fmt(r0.stderr)),
                              !.stderrout = Text(fmt(r0.stderr))]
        out == fmt(r1.stdout)
        r2 == IF r1.stdout.t = "none" THEN r1
              ELSE [r1 EXCEPT !.stdout = Text(out),
                              !.stderrout =
                                  IF r1.stderr.t = "str" /\ r1.stderr.s # <<>>
                                  THEN Text(r1.stderr.s \o out)
                                  ELSE Text(out)]
    IN  IF raises_decode(r0.stderr) THEN [ok |-> FALSE, obj |-> r0]
        ELSE IF raises_decode(r1.stdout) THEN [ok |-> FALSE, obj |-> r1]
        ELSE [ok |-> TRUE, obj |-> r2]

format_output(result) ==
    LET r0 == [result EXCEPT !.stderrout = None]
        r1 == IF r0.stderr.t = "none" THEN r0
              ELSE [r0 EXCEPT !.stderr = Text(strip(as_text(r0.stderr))),
                              !.stderrout = Text(strip(as_text(r0.stderr)))]
        out == strip(as_text(r1.stdout))
        r2 == IF r1.stdout.t = "none" THEN r1
              ELSE [r1 EXCEPT !.stdout = Text(out),
                              !.stderrout =
                                  IF r1.stderr.t = "str" /\ r1.stderr.s # <<>>
                                  THEN Text(r1.stderr.s \o out)
                                  ELSE Text(out)]
    IN  IF raises_decode(r0.stderr) THEN [ok |-> FALSE, obj |-> r0]
        ELSE IF raises_decode(r1.stdout) THEN [ok |-> FALSE, obj |-> r1]
        ELSE [ok |-> TRUE, obj |-> r2]

update_stderrout(result) ==
    LET r0 == [result EXCEPT !.stderrout = None]
        r1 == IF r0.stderr.t = "none" THEN r0
              ELSE [r0 EXCEPT !.stderr = Text(strip(as_text(r0.stderr))),
                              !.stderrout = Text(strip(as_text(r0.stderr)))]
        out == strip(as_text(r1.stdout))
        r2 == IF r1.stdout.t = "none" THEN r1
              ELSE [r1 EXCEPT !.stdout = Text(out),
                              !.stderrout =
                                  IF r1.stderr.t = "str" /\ r1.stderr.s # <<>>
                                  THEN Text(r1.stderr.s \o out)
                                  ELSE Text(out)]
    IN  IF raises_decode(r0.stderr) THEN [ok |-> FALSE, obj |-> r0]
        ELSE IF raises_decode(r1.stdout) THEN [ok |-> FALSE, obj |-> r1]
        ELSE [ok |-> TRUE, obj |-> r2]

(***************************************************************************)
(* run()                                                                   *)
(*                                                                         *)
(* A child either exits with a status after writing out and err, or the    *)
(* spawn raises a fault that is no CalledProcessError.  The outcome of a   *)
(* call: kind "returned" or "raised"; exc the exception type; obj which    *)
(* object reached the caller ("result", the CalledProcessError "cpe" of    *)
(* subprocess.run, its other "fault", or the UnicodeDecodeError "decode"   *)
(* raised while formatting); carries whether that object has returncode,   *)
(* stdout, stderr and stderrout; args the argument list handed to          *)
(* subprocess.run; spawn_kwargs its keyword arguments; logged the          *)
(* exception objects written to the log.                                   *)
(***************************************************************************)
Exit(code, out, err) ==
    [kind |-> "exit", code |-> code, out |-> out, err |-> err, fault |-> ""]
Fault(name) ==
    [kind |-> "fault", code |-> 0, out |-> <<>>, err |-> <<>>, fault |-> name]

NoRet ==
    [fn |-> "", kind |-> "none", exc |-> "", obj |-> "", carries |-> FALSE,
     returncode |-> 0, args |-> <<>>, spawn_kwargs |-> NoKwargs,
     output_bytes |-> "False", stdout |-> None, stderr |-> None,
     stderrout |-> None, logged |-> {}]

\* what subprocess.run captures of a stream: the bytes if it is piped
captured(spawn_kw, stream, written) ==
    IF spawn_kw[stream] = "PIPE" THEN Bytes(written) ELSE None

\* both streams piped whatever the caller asked for
spawn_kwargs_of_always_pipe(kw) ==
    LET kw1 == IF Has(kw, "verbose") THEN Del(kw, "verbose") ELSE kw
        kw2 == IF Has(kw1, "output_bytes") THEN Del(kw1, "output_bytes") ELSE kw1
    IN  Update(kw2, [stdout |-> "PIPE", stderr |-> "PIPE"])

\* lines 122-144: verbose and output_bytes leave kwargs, the streams default
\* to pipes
spawn_kwargs_of(kw) ==
    LET kw1 == IF Has(kw, "verbose") THEN Del(kw, "verbose") ELSE kw
        kw2 == IF Has(kw1, "output_bytes") THEN Del(kw1, "output_bytes") ELSE kw1
        kw3 == IF Has(kw2, "stdout") THEN kw2 ELSE Update(kw2, [stdout |-> "PIPE"])
    IN  IF Has(kw3, "stderr") THEN kw3 ELSE Update(kw3, [stderr |-> "PIPE"])

output_bytes_of(kw) ==
    IF Has(kw, "output_bytes") THEN kw["output_bytes"] ELSE "False"

\* a handler that raises CalledProcessError for every fault
reraised_as_cpe(ch) == "CalledProcessError"

\* except Exception as e: ...; raise
reraised(ch) == ch.fault

run(cargs, kw, listing, ch) ==
    LET \* command_args = list(map(str, command_args))
        ga == get_run_args([i \in 1..Len(cargs) |-> StrArg(Str(cargs[i]))],
                           kw, listing)
        skw == spawn_kwargs_of(ga.kwargs)
        \* subprocess.run(args, check=True, **kwargs)
        raw == [stdout |-> captured(skw, "stdout", ch.out),
                stderr |-> captured(skw, "stderr", ch.err),
                stderrout |-> None]
        f == format_output(raw)
        \* handle_run_error(command_args, cpe)
        u == update_stderrout(f.obj)
        base == [NoRet EXCEPT !.fn = "run", !.args = ga.args, !.spawn_kwargs = skw,
                              !.output_bytes = output_bytes_of(ga.kwargs)]
    IN  IF ch.kind = "fault"
        THEN \* except Exception as e: log(e); raise
             [base EXCEPT !.kind = "raised", !.exc = reraised(ch), !.obj = "fault",
                          !.logged = {"fault"}]
        ELSE IF ch.code # 0
        THEN \* except subprocess.CalledProcessError as cpe
             IF ~f.ok \/ ~u.ok
             THEN \* decode() raised inside the except clause
                  [base EXCEPT !.kind = "raised", !.exc = "UnicodeDecodeError",
                               !.obj = "decode"]
             ELSE [base EXCEPT !.kind = "raised", !.exc = "CalledProcessError",
                               !.obj = "cpe", !.carries = TRUE,
                               !.returncode = ch.code,
                               !.stdout = u.obj.stdout, !.stderr = u.obj.stderr,
                               !.stderrout = u.obj.stderrout,
                               !.logged = {"cpe"}]
        ELSE \* else: result = format_output(result)
             IF ~f.ok
             THEN [base EXCEPT !.kind = "raised", !.exc = "UnicodeDecodeError",
                               !.obj = "decode"]
             ELSE [base EXCEPT !.kind = "returned", !.obj = "result",
                               !.carries = TRUE, !.returncode = ch.code,
                               !.stdout = f.obj.stdout, !.stderr = f.obj.stderr,
                               !.stderrout = f.obj.stderrout]

(***************************************************************************)
(* nice() and nice_args()                                                  *)
(***************************************************************************)
nice_params ==
    <<StrArg(<<"n", "i", "c", "e">>), StrArg(<<"n", "i", "c", "e">>),
      StrArg(<<"i", "o", "n", "i", "c", "e">>),
      StrArg(<<"-", "-", "c", "l", "a", "s", "s">>), StrArg(<<"3">>)>>

\* the prefix of the docstring, "ionice -c 3"
nice_args_short_class(args) ==
    <<StrArg(<<"n", "i", "c", "e">>), StrArg(<<"n", "i", "c", "e">>),
      StrArg(<<"i", "o", "n", "i", "c", "e">>),
      StrArg(<<"-", "c">>), StrArg(<<"3">>)>> \o args

nice_args(args) == nice_params \o args

nice(cargs, kw, listing, ch) == run(nice_args(cargs), kw, listing, ch)

(***************************************************************************)
(* The inputs of run(), nice() and get_run_args()                          *)
(***************************************************************************)
FileNames == {<<"a">>, <<"a", "b">>, <<"b">>}

Listings ==
    {l \in SeqsUpTo(FileNames, Cardinality(FileNames)) :
        \A i, j \in 1..Len(l) : i # j => l[i] # l[j]}

ArgPool ==
    {StrArg(<<"a">>), StrArg(<<"a", "*">>), StrArg(<<"?">>),
     StrArg(<<"z", "*">>),
     StrArg(<<"\"", "*", "\"">>), StrArg(<<"'", "a", "?", "'">>),
     StrArg(<<"\"", "a", "*">>), StrArg(<<"'", "*", "\"">>),
     IntArg(7), IntArg(12)}

Dicts(key, values) == {[k \in {key} |-> v] : v \in values}

Flags == {"True", "False"}

ArgsKwargs ==
    {Update(g, i) : g \in {NoKwargs} \cup Dicts("glob", Flags),
                    i \in {NoKwargs} \cup Dicts("interactive", Flags)}

RunKwargs ==
    {NoKwargs} \cup Dicts("glob", Flags) \cup Dicts("interactive", Flags)
    \cup Dicts("output_bytes", Flags) \cup Dicts("verbose", Flags)
    \cup Dicts("stdout", {"PIPE", "file"}) \cup Dicts("stderr", {"PIPE", "file"})
    \cup Dicts("timeout", {"1"})

RunCommands ==
    {<<StrArg(<<"c">>)>>, <<StrArg(<<"c">>), StrArg(<<"*">>)>>}

RunListings == {<<>>, <<<<"a">>, <<"b">>>>}

OutBytes == {10, 111, 255}
ErrBytes == {10, 101, 255}

Children(kw) ==
    {Exit(c, o, e) : c \in 0..MaxExit, o \in SeqsUpTo(OutBytes, MaxOut),
                     e \in SeqsUpTo(ErrBytes, MaxOut)}
    \cup {Fault("FileNotFoundError")}
    \cup (IF Has(kw, "timeout") THEN {Fault("TimeoutExpired")} ELSE {})

(***************************************************************************)
(* The process table of background() and wait_child()                      *)
(***************************************************************************)
NoCall ==
    [fn |-> "", args |-> <<>>, argv |-> <<>>,
     handle |-> [isPopen |-> FALSE, pid |-> 0],
     kind |-> "none", blocked |-> FALSE, exc |-> "", obj |-> "", value |-> 0,
     spawns |-> 0,
     waits |-> 0, first |-> [ok |-> TRUE, exc |-> "", strerror |-> ""],
     head |-> "", retry |-> [ok |-> TRUE, exc |-> "", strerror |-> ""]]

InitBgIdle ==
    /\ procs = <<>>
    /\ handles = {}
    /\ waiting = 0
    /\ last = NoCall

NoResult == [stdout |-> None, stderr |-> None, stderrout |-> None]

InitFmtIdle ==
    /\ completed = [ok |-> TRUE, obj |-> NoResult]
    /\ once = [ok |-> TRUE, obj |-> NoResult]
    /\ applied = 0

NoDbCall ==
    [fn |-> "", kind |-> "none", exc |-> "", value |-> 0, record |-> 0,
     maxtries |-> 0, attempts |-> 0, outcomes |-> <<>>, before |-> <<>>]

InitDbIdle ==
    /\ records = <<>>
    /\ dbcall = NoDbCall

InitRunIdle ==
    /\ command_args = <<>>
    /\ kwargs = NoKwargs
    /\ dirlist = <<>>
    /\ child = Fault("")
    /\ pc = "idle"
    /\ ret = NoRet

(***************************************************************************)
(* background()                                                            *)
(*                                                                         *)
(* A process of the table is "running", a "zombie" (terminated, not yet    *)
(* reaped) or "reaped"; its pid is its index, and pids are not used again. *)
(* held tells whether its Popen object is still referenced, and reaps how  *)
(* many times it was reaped.  What subprocess.Popen does is the            *)
(* environment's choice: it spawns, or raises an OSError with or without   *)
(* a strerror, or raises another exception.                                *)
(***************************************************************************)
Spawned == [ok |-> TRUE, exc |-> "", strerror |-> ""]
SpawnRaises(exc, strerror) == [ok |-> FALSE, exc |-> exc, strerror |-> strerror]

ExecFormatError == SpawnRaises("OSError", "Exec format error")

OSErrors == {"OSError", "FileNotFoundError", "PermissionError"}

SpawnResults ==
    {Spawned, ExecFormatError,
     SpawnRaises("FileNotFoundError", "No such file or directory"),
     SpawnRaises("PermissionError", "Permission denied"),
     SpawnRaises("OSError", ""),
     SpawnRaises("TypeError", "")}

\* shlex.split() of text without quotes or escapes: the words between
\* runs of whitespace
RECURSIVE shlex_split(_, _)
shlex_split(s, word) ==
    IF s = <<>> THEN (IF word = <<>> THEN <<>> ELSE <<word>>)
    ELSE IF Head(s) \in Whitespace
         THEN (IF word = <<>> THEN <<>> ELSE <<word>>)
              \o shlex_split(Tail(s), <<>>)
    ELSE shlex_split(Tail(s), Append(word, Head(s)))

\* a single argument with any whitespace in it taken as a command line
split_command_any_whitespace(cargs) ==
    LET strs == StrAll(cargs)
    IN  IF Len(strs) = 1 /\ Range(strs[1]) \cap Whitespace # {}
        THEN shlex_split(strs[1], <<>>)
        ELSE strs

\* lines 252-257: a single argument with a space in it is a command line
split_command(cargs) ==
    LET strs == StrAll(cargs)
    IN  IF Len(strs) = 1 /\ " " \in Range(strs[1])
        THEN shlex_split(strs[1], <<>>)
        ELSE strs

\* the names bound where the except clauses of background() run: its
\* locals and the globals of the module
BackgroundScope ==
    {"command_args", "kwargs", "kwargs_str", "key", "process", "ose", "e",
     "program_file", "program", "first_chars",
     "log", "glob", "os", "Queue", "shlex", "subprocess", "sys", "Thread",
     "sleep", "run", "run_verbose", "background", "get_run_args",
     "format_output", "handle_run_error", "update_stderrout", "nice",
     "nice_args", "wait_child", "_init_log", "show_stderr"}

\* Popen() of an empty argument list raises IndexError whatever the system
Popen(argv, result) ==
    IF argv = <<>> THEN SpawnRaises("IndexError", "") ELSE result

NewProcess(shell) ==
    [state |-> "running", shell |-> shell, held |-> TRUE, reaps |-> 0]

\* subprocess.Popen() begins by polling the children whose Popen object
\* was collected while they ran, which reaps those that have terminated
cleanup(table) ==
    [p \in DOMAIN table |->
        IF table[p].state = "zombie" /\ ~table[p].held
        THEN [table[p] EXCEPT !.state = "reaped", !.reaps = @ + 1]
        ELSE table[p]]

BgOutcome(kind, exc, obj, value, spawns, table) ==
    [kind |-> kind, exc |-> exc, obj |-> obj, value |-> value,
     spawns |-> spawns, table |-> table]

\* the second spawn matters when there is one to make, and the head of the
\* file when the first spawn found its format wrong
RetryResults(first, head) ==
    IF first = ExecFormatError /\ head = "#!"
    THEN {Spawned, SpawnRaises("FileNotFoundError", "No such file or directory")}
    ELSE {Spawned}

\* the outcome of background(): obj is "process" when a Popen object is
\* returned and "None" when None is, the exception of the "first" or the
\* "retry" spawn when that is raised, and "new" for any other exception
background(cargs, first, head, retry, table) ==
    LET argv == split_command(cargs)
        p1 == Popen(argv, first)
        p2 == Popen(argv, retry)
        \* the table once Popen() has been called
        swept == cleanup(table)
        t1 == Append(swept, NewProcess(FALSE))
        \* the Popen object of the retry is a local that nothing returns
        t2 == Append(swept, [NewProcess(TRUE) EXCEPT !.held = FALSE])
    IN  IF cargs = <<>>
        THEN BgOutcome("raised", "ValueError", "new", 0, 0, table)
        ELSE IF p1.ok
        THEN \* else: return process
             BgOutcome("returned", "", "process", Len(t1), 1, t1)
        ELSE IF "command_str" \notin BackgroundScope
        THEN \* log.debug(f'... {command_str}') in either except clause
             BgOutcome("raised", "NameError", "new", 0, 1, swept)
        ELSE IF p1.exc \notin OSErrors
        THEN \* except Exception as e: raise
             BgOutcome("raised", p1.exc, "first", 0, 1, swept)
        ELSE IF p1.strerror = ""
        THEN BgOutcome("raised", p1.exc, "first", 0, 1, swept)
        ELSE IF p1.strerror # "Exec format error"
        THEN BgOutcome("raised", p1.exc, "first", 0, 1, swept)
        ELSE IF head # "#!"
        THEN BgOutcome("raised", p1.exc, "first", 0, 1, swept)
        ELSE IF p2.ok
        THEN \* the except clause ends and the function returns nothing
             BgOutcome("returned", "", "None", 0, 2, t2)
        ELSE BgOutcome("raised", p2.exc, "retry", 0, 2, swept)

(***************************************************************************)
(* wait_child()                                                            *)
(***************************************************************************)
Handle(pid) == [isPopen |-> TRUE, pid |-> pid]
NotAHandle(pid) == [isPopen |-> FALSE, pid |-> pid]

WaitOutcome(kind, exc, waits, reaps) ==
    [kind |-> kind, exc |-> exc, waits |-> waits, reaps |-> reaps]

\* os.waitpid(pid, os.WNOHANG) in place of os.waitpid(pid, 0)
wait_child_nohang(process, table) ==
    IF ~process.isPopen THEN WaitOutcome("raised", "ValueError", 0, FALSE)
    ELSE IF table[process.pid].state = "reaped"
    THEN WaitOutcome("raised", "ChildProcessError", 1, FALSE)
    ELSE IF table[process.pid].state = "running"
    THEN WaitOutcome("returned", "", 1, FALSE)
    ELSE WaitOutcome("returned", "", 1, TRUE)

\* the type check comes after the wait
wait_child_checks_late(process, table) ==
    IF process.pid \in 1..Len(table) /\ table[process.pid].state = "running"
    THEN WaitOutcome("blocked", "", 1, FALSE)
    ELSE IF process.pid \in 1..Len(table) /\ table[process.pid].state = "zombie"
    THEN (IF process.isPopen THEN WaitOutcome("returned", "", 1, TRUE)
          ELSE WaitOutcome("raised", "ValueError", 1, TRUE))
    ELSE IF ~process.isPopen THEN WaitOutcome("raised", "ValueError", 0, FALSE)
    ELSE WaitOutcome("raised", "ChildProcessError", 1, FALSE)

\* what wait_child(process) does against the process table: it raises,
\* or os.waitpid() blocks while the child runs, or os.waitpid() reaps the
\* terminated child and wait_child() returns None
wait_child(process, table) ==
    IF ~process.isPopen THEN WaitOutcome("raised", "ValueError", 0, FALSE)
    ELSE IF table[process.pid].state = "reaped"
    THEN WaitOutcome("raised", "ChildProcessError", 1, FALSE)
    ELSE IF table[process.pid].state = "running"
    THEN WaitOutcome("blocked", "", 1, FALSE)
    ELSE WaitOutcome("returned", "", 1, TRUE)

(***************************************************************************)
(* Calls of run(), nice() and get_run_args()                               *)
(***************************************************************************)
InitRun ==
    /\ command_args \in RunCommands
    /\ kwargs \in RunKwargs
    /\ dirlist \in RunListings
    /\ child \in Children(kwargs)
    /\ pc = "call"
    /\ ret = NoRet
    /\ InitBgIdle
    /\ InitFmtIdle
    /\ InitDbIdle

RunCall ==
    /\ pc = "call"
    /\ ret' = run(command_args, kwargs, dirlist, child)
    /\ pc' = "done"
    /\ UNCHANGED <<command_args, kwargs, dirlist, child, bgVars, fmtVars, dbVars>>

NiceCall ==
    /\ pc = "call"
    /\ ret' = [nice(command_args, kwargs, dirlist, child) EXCEPT !.fn = "nice"]
    /\ pc' = "done"
    /\ UNCHANGED <<command_args, kwargs, dirlist, child, bgVars, fmtVars, dbVars>>

NextRun == RunCall \/ NiceCall

SpecRun == InitRun /\ [][NextRun]_vars

\* run() under every combination of interactive, stdout and stderr with one
\* other option
StreamKwargs ==
    {Update(Update(Update(i, o), e), x) :
        i \in {NoKwargs} \cup Dicts("interactive", Flags),
        o \in {NoKwargs} \cup Dicts("stdout", {"PIPE", "file"}),
        e \in {NoKwargs} \cup Dicts("stderr", {"PIPE", "file"}),
        x \in {NoKwargs} \cup Dicts("glob", Flags) \cup Dicts("verbose", Flags)
               \cup Dicts("output_bytes", Flags) \cup Dicts("timeout", {"1"})}

StreamChildren(kw) ==
    {ch \in Children(kw) : Len(ch.out) <= 1 /\ Len(ch.err) <= 1}

InitStreams ==
    /\ command_args \in RunCommands
    /\ kwargs \in StreamKwargs
    /\ dirlist = <<>>
    /\ child \in StreamChildren(kwargs)
    /\ pc = "call"
    /\ ret = NoRet
    /\ InitBgIdle
    /\ InitFmtIdle
    /\ InitDbIdle

NextStreams == RunCall

SpecStreams == InitStreams /\ [][NextStreams]_vars

InitArgs ==
    /\ command_args \in SeqsUpTo(ArgPool, MaxArgs)
    /\ kwargs \in ArgsKwargs
    /\ dirlist \in Listings
    /\ child = Fault("")
    /\ pc = "call"
    /\ ret = NoRet
    /\ InitBgIdle
    /\ InitFmtIdle
    /\ InitDbIdle

GetRunArgsCall ==
    /\ pc = "call"
    /\ LET ga == get_run_args(command_args, kwargs, dirlist)
       IN  ret' = [NoRet EXCEPT !.fn = "get_run_args", !.kind = "returned",
                                !.obj = "result", !.args = ga.args,
                                !.spawn_kwargs = ga.kwargs]
    /\ pc' = "done"
    /\ UNCHANGED <<command_args, kwargs, dirlist, child, bgVars, fmtVars, dbVars>>

NextArgs == GetRunArgsCall

SpecArgs == InitArgs /\ [][NextArgs]_vars

(***************************************************************************)
(* Calls of format_output() on an object whose stdout and stderr are each  *)
(* None, bytes or text                                                     *)
(***************************************************************************)
TextChars == {" ", "\n", "o"}

StreamValues(bytes) ==
    {None} \cup {Bytes(b) : b \in SeqsUpTo(bytes \cup {32}, MaxOut)}
           \cup {Text(t) : t \in SeqsUpTo(TextChars, MaxOut)}

InitFormat ==
    /\ completed \in {[ok |-> TRUE,
                        obj |-> [stdout |-> o, stderr |-> e, stderrout |-> None]] :
                          o \in StreamValues(OutBytes),
                          e \in StreamValues(ErrBytes)}
    /\ once = completed
    /\ applied = 0
    /\ InitRunIdle
    /\ InitBgIdle
    /\ InitDbIdle

\* result = format_output(result), on whatever the last application left
FormatOutputCall ==
    /\ applied < 2
    /\ completed' = format_output(completed.obj)
    /\ once' = IF applied = 0 THEN completed' ELSE once
    /\ applied' = applied + 1
    /\ UNCHANGED <<runVars, bgVars, dbVars>>

NextFormat == FormatOutputCall

SpecFormat == InitFormat /\ [][NextFormat]_vars

(***************************************************************************)
(* Properties of run()                                                     *)
(***************************************************************************)
RunDone == pc = "done" /\ ret.fn = "run"
ExitedNonZero == child.kind = "exit" /\ child.code # 0
ExitedZero == child.kind = "exit" /\ child.code = 0

\* t is raw without its leading and trailing whitespace
IsTrimOf(t, raw) ==
    /\ t = <<>> \/ (t[1] \notin Whitespace /\ t[Len(t)] \notin Whitespace)
    /\ \E i, j \in 0..Len(raw) :
          /\ i + j <= Len(raw)
          /\ t = SubSeq(raw, i + 1, Len(raw) - j)
          /\ \A k \in 1..i : raw[k] \in Whitespace
          /\ \A k \in (Len(raw) - j + 1)..Len(raw) : raw[k] \in Whitespace

Piped(stream) == ret.spawn_kwargs[stream] = "PIPE"

\* stdout and stderr are the decoded, trimmed text of what the child wrote
\* to the streams that were captured, and stderrout is stderr then stdout
CarriesFormattedOutput ==
    /\ ret.carries
    /\ IF Piped("stderr")
       THEN ret.stderr.t = "str" /\ IsTrimOf(ret.stderr.s, decode(child.err))
       ELSE ret.stderr = None
    /\ IF Piped("stdout")
       THEN ret.stdout.t = "str" /\ IsTrimOf(ret.stdout.s, decode(child.out))
       ELSE ret.stdout = None
    /\ ret.stderrout =
          IF Piped("stderr") /\ Piped("stdout")
          THEN Text(ret.stderr.s \o ret.stdout.s)
          ELSE IF Piped("stderr") THEN ret.stderr
          ELSE IF Piped("stdout") THEN ret.stdout
          ELSE None

\* C1: whenever the child of run() exits with a non-zero status c, run()
\* raises CalledProcessError and the error's returncode is c.
C1_NonZeroExitRaisesCalledProcessError ==
    (RunDone /\ ExitedNonZero) =>
        /\ ret.kind = "raised"
        /\ ret.exc = "CalledProcessError"
        /\ ret.carries
        /\ ret.returncode = child.code

\* C2: whenever the child exits 0 and run() returns a result, the result's
\* stderrout is trimmed stderr followed by trimmed stdout when both were
\* captured, the captured one when only one was, and None when neither was.
C2_CombinedOutputOnSuccess ==
    (RunDone /\ ExitedZero /\ ret.kind = "returned") =>
        /\ ret.returncode = 0
        /\ CarriesFormattedOutput

C2_Witness ==
    /\ RunDone /\ ExitedZero /\ ret.kind = "returned"
    /\ Piped("stderr") /\ Piped("stdout")
    /\ ret.stderr.s # <<>> /\ ret.stdout.s # <<>>
    /\ Len(ret.stdout.s) < Len(child.out)
    /\ Len(ret.stderr.s) < Len(child.err)

\* C3: whenever the child exits non-zero, the object run() raises is the
\* CalledProcessError of the spawn, the one written to the log, and it
\* carries stdout and stderr as decoded, trimmed text and stderrout as
\* trimmed stderr followed by trimmed stdout.
C3_FailureCarriesFormattedOutput ==
    (RunDone /\ ExitedNonZero) =>
        /\ ret.kind = "raised"
        /\ ret.obj = "cpe"
        /\ ret.obj \in ret.logged
        /\ CarriesFormattedOutput

\* what output_bytes asks a captured stream of the result to be
StreamAsAsked(value, written) ==
    IF Truthy(ret.output_bytes)
    THEN value = Bytes(written)
    ELSE value.t = "str" /\ IsTrimOf(value.s, decode(written))

\* C11: whenever run() returns a result, output_bytes was not handed to
\* subprocess.run, and the stdout and stderr that were captured are the
\* captured bytes when output_bytes was true, and the decoded, trimmed text
\* when it was false or absent.
C11_OutputBytesSkipsDecoding ==
    (RunDone /\ ret.kind = "returned") =>
        /\ ~Has(ret.spawn_kwargs, "output_bytes")
        /\ Piped("stdout") => StreamAsAsked(ret.stdout, child.out)
        /\ Piped("stderr") => StreamAsAsked(ret.stderr, child.err)

\* C12 as claimed: the stdout or stderr option the caller of run() gave is
\* the one handed to subprocess.run, whatever the other options are, and a
\* stream without an option is piped.
C12_ExplicitStreamAlwaysRespected ==
    RunDone =>
        \A stream \in {"stdout", "stderr"} :
            ret.spawn_kwargs[stream] =
                IF Has(kwargs, stream) THEN kwargs[stream] ELSE "PIPE"

Interactive == Has(kwargs, "interactive") /\ Truthy(kwargs["interactive"])

\* C12: unless interactive is true, the stdout or stderr option the caller
\* of run() gave is the one handed to subprocess.run and a stream without an
\* option is piped; when interactive is true, subprocess.run is handed
\* sys.stdout and sys.stderr whatever the caller gave.
C12_ExplicitStreamRespectedUnlessInteractive ==
    RunDone =>
        \A stream \in {"stdout", "stderr"} :
            ret.spawn_kwargs[stream] =
                IF Interactive THEN IF stream = "stdout" THEN "sys.stdout"
                                                         ELSE "sys.stderr"
                ELSE IF Has(kwargs, stream) THEN kwargs[stream]
                ELSE "PIPE"

C12_Witness ==
    /\ RunDone
    /\ Has(kwargs, "interactive") /\ ~Interactive
    /\ Has(kwargs, "stdout") /\ kwargs["stdout"] = "file"
    /\ ~Has(kwargs, "stderr")
    /\ ret.spawn_kwargs["stdout"] = "file"
    /\ ret.spawn_kwargs["stderr"] = "PIPE"

\* C14: applying format_output() to an object it has already been applied
\* to leaves stdout, stderr and stderrout as the first application left
\* them, and raises exactly when the first application raised.
C14_FormatOutputIdempotent ==
    applied = 2 => completed = once

C14_Witness ==
    /\ applied = 2
    /\ completed.ok
    /\ completed = once
    /\ completed.obj.stdout.t = "str" /\ completed.obj.stdout.s # <<>>
    /\ completed.obj.stderr.t = "str" /\ completed.obj.stderr.s # <<>>
    /\ completed.obj.stderrout = Text(completed.obj.stderr.s \o completed.obj.stdout.s)

\* C13: whenever the spawn of run() raises a fault that is no
\* CalledProcessError, run() raises that same fault: a TimeoutExpired
\* reaches the caller as TimeoutExpired, and nothing is returned.
C13_OtherFaultsReraisedUnchanged ==
    (RunDone /\ child.kind = "fault") =>
        /\ ret.kind = "raised"
        /\ ret.obj = "fault"
        /\ ret.exc = child.fault
        /\ ret.exc # "CalledProcessError"
        /\ ~ret.carries

C13_Witness ==
    /\ RunDone
    /\ Has(kwargs, "timeout")
    /\ child = Fault("TimeoutExpired")
    /\ ret.kind = "raised"
    /\ ret.exc = "TimeoutExpired"

(***************************************************************************)
(* Properties of nice()                                                    *)
(***************************************************************************)
NiceDone == pc = "done" /\ ret.fn = "nice"

NicePrefix ==
    <<<<"n", "i", "c", "e">>, <<"n", "i", "c", "e">>,
      <<"i", "o", "n", "i", "c", "e">>,
      <<"-", "-", "c", "l", "a", "s", "s">>, <<"3">>>>

AsStrArgs(words) == [i \in 1..Len(words) |-> StrArg(words[i])]

ArgsDone == pc = "done" /\ ret.fn = "get_run_args"

Word(i) == Str(command_args[i])

GlobEnabled == IF "glob" \in DOMAIN kwargs THEN kwargs["glob"] = "True" ELSE TRUE

IsWildcard(w) == \E k \in 1..Len(w) : w[k] \in {"*", "?"}

IsQuoteEncased(w) == Len(w) >= 1 /\ w[1] = w[Len(w)] /\ w[1] \in {"\"", "'"}

IsExpanded(i) ==
    GlobEnabled /\ IsWildcard(Word(i)) /\ ~IsQuoteEncased(Word(i))

Matches(i) == {name \in Range(dirlist) : fnmatch(name, Word(i))}

\* the number of words argument i stands for in the resolved list
SegLen(i) == IF IsExpanded(i) THEN Cardinality(Matches(i)) ELSE 1

RECURSIVE SegStart(_)
SegStart(i) == IF i = 1 THEN 1 ELSE SegStart(i - 1) + SegLen(i - 1)

Seg(i) == SubSeq(ret.args, SegStart(i), SegStart(i) + SegLen(i) - 1)

Segmented == Len(ret.args) = SegStart(Len(command_args) + 1) - 1

\* C8: a wildcard argument that is quote-encased, or any wildcard argument
\* when glob is disabled, is in the resolved list unchanged at its position;
\* with glob disabled the resolved list is the stringified input list; an
\* argument is replaced by filesystem matches only when glob is enabled, it
\* holds a wildcard and it is not quote-encased.
C8_QuotedOrGlobDisabledPassThrough ==
    ArgsDone =>
        /\ Segmented
        /\ \A i \in 1..Len(command_args) :
              /\ (IsWildcard(Word(i)) /\ (IsQuoteEncased(Word(i)) \/ ~GlobEnabled))
                     => Seg(i) = <<Word(i)>>
              /\ Seg(i) # <<Word(i)>>
                     => (GlobEnabled /\ IsWildcard(Word(i))
                         /\ ~IsQuoteEncased(Word(i)))
        /\ ~GlobEnabled => ret.args = StrAll(command_args)

C8_Witness ==
    /\ ArgsDone
    /\ GlobEnabled
    /\ \E i, j \in 1..Len(command_args) :
          /\ j < i
          /\ IsExpanded(j) /\ SegLen(j) # 1
          /\ IsWildcard(Word(i)) /\ IsQuoteEncased(Word(i))

\* C9: with glob enabled, a wildcard argument that is not quote-encased
\* stands in the resolved list for exactly its k filesystem matches, at its
\* position: for none when nothing matches; every other argument is there
\* once, so the other arguments keep their order.
C9_WildcardContributesItsMatches ==
    (ArgsDone /\ GlobEnabled) =>
        /\ Segmented
        /\ \A i \in 1..Len(command_args) :
              IF IsExpanded(i)
              THEN /\ Range(Seg(i)) = Matches(i)
                   /\ Len(Seg(i)) = Cardinality(Matches(i))
                   /\ Matches(i) = {} => Seg(i) = <<>>
              ELSE Seg(i) = <<Word(i)>>

C9_Witness ==
    /\ ArgsDone
    /\ GlobEnabled
    /\ \E i, j \in 1..Len(command_args) :
          /\ i < j
          /\ IsExpanded(i) /\ Matches(i) = {}
          /\ IsExpanded(j) /\ Cardinality(Matches(j)) >= 2

(***************************************************************************)
(* Calls of background() and wait_child() by one caller, and the children  *)
(* terminating                                                             *)
(***************************************************************************)
BgCommands ==
    {<<>>,
     <<StrArg(<<"s">>)>>,
     <<StrArg(<<"s">>), IntArg(1)>>,
     <<StrArg(<<"s", " ", "1">>)>>,
     <<StrArg(<<"s", "\t", "1">>)>>,
     <<StrArg(<<"s", "\t", " ", "1">>)>>,
     <<StrArg(<<" ">>)>>}

FileHeads == {"#!", "ab"}

HeadsRead(first) == IF first = ExecFormatError THEN FileHeads ELSE {""}

InitBg ==
    /\ InitRunIdle
    /\ InitBgIdle
    /\ InitFmtIdle
    /\ InitDbIdle

BackgroundCall ==
    /\ waiting = 0
    /\ \E cargs \in BgCommands, first \in SpawnResults :
       \E head \in HeadsRead(first) :
       \E retry \in RetryResults(first, head) :
          LET o == background(cargs, first, head, retry, procs)
          IN  /\ Len(o.table) <= MaxProcs
              /\ procs' = o.table
              /\ handles' = IF o.obj = "process"
                            THEN handles \cup {o.value} ELSE handles
              /\ last' = [NoCall EXCEPT !.fn = "background", !.args = cargs,
                                        !.argv = split_command(cargs),
                                        !.kind = o.kind, !.exc = o.exc,
                                        !.obj = o.obj, !.value = o.value,
                                        !.spawns = o.spawns, !.first = first,
                                        !.head = head, !.retry = retry]
    /\ UNCHANGED <<waiting, runVars, fmtVars, dbVars>>

\* os.waitpid(-1, 0) until no terminated child is left
Reap_any_child(table, pid) ==
    [p \in DOMAIN table |->
        IF table[p].state = "zombie"
        THEN [table[p] EXCEPT !.state = "reaped", !.reaps = @ + 1]
        ELSE table[p]]

Reap(table, pid) ==
    [table EXCEPT ![pid].state = "reaped", ![pid].reaps = @ + 1]

WaitChildCall ==
    /\ waiting = 0
    /\ \E process \in {Handle(p) : p \in handles}
                      \cup {NotAHandle(p) : p \in 0..Len(procs)} :
          LET o == wait_child(process, procs)
          IN  /\ procs' = IF o.reaps THEN Reap(procs, process.pid) ELSE procs
              /\ waiting' = IF o.kind = "blocked" THEN process.pid ELSE 0
              /\ last' = [NoCall EXCEPT !.fn = "wait_child",
                                        !.handle = process, !.kind = o.kind,
                                        !.blocked = (o.kind = "blocked"),
                                        !.exc = o.exc, !.waits = o.waits,
                                        !.obj = IF o.kind = "returned"
                                                THEN "None" ELSE ""]
    /\ UNCHANGED <<handles, runVars, fmtVars, dbVars>>

\* os.waitpid() wakes up: the child the caller is blocked on has terminated
WaitChildReturn ==
    /\ waiting # 0
    /\ LET o == wait_child(Handle(waiting), procs)
       IN  /\ o.kind # "blocked"
           /\ procs' = IF o.reaps THEN Reap(procs, waiting) ELSE procs
           /\ last' = [last EXCEPT !.kind = o.kind, !.exc = o.exc,
                                   !.obj = IF o.kind = "returned"
                                           THEN "None" ELSE ""]
    /\ waiting' = 0
    /\ UNCHANGED <<handles, runVars, fmtVars, dbVars>>

ProcessExit ==
    /\ \E p \in 1..Len(procs) :
          /\ procs[p].state = "running"
          /\ procs' = [procs EXCEPT ![p].state = "zombie"]
    /\ UNCHANGED <<handles, waiting, last, runVars, fmtVars, dbVars>>

\* the caller lets go of a Popen object: Popen.__del__ polls the child,
\* which reaps it if it has terminated, and otherwise leaves the object to
\* the next Popen() call
DropHandle ==
    /\ waiting = 0
    /\ \E h \in handles :
          /\ handles' = handles \ {h}
          /\ procs' = [procs EXCEPT ![h] =
                          IF @.state = "zombie"
                          THEN [@ EXCEPT !.held = FALSE, !.state = "reaped",
                                         !.reaps = @ + 1]
                          ELSE [@ EXCEPT !.held = FALSE]]
          /\ last' = [NoCall EXCEPT !.fn = "del", !.handle = Handle(h)]
    /\ UNCHANGED <<waiting, runVars, fmtVars, dbVars>>

NextBg ==
    BackgroundCall \/ WaitChildCall \/ WaitChildReturn \/ ProcessExit
    \/ DropHandle

SpecBg == InitBg /\ [][NextBg]_vars

\* a blocked os.waitpid() returns once the child has terminated, and a
\* running child is not kept from terminating
SpecBgLive == SpecBg /\ WF_vars(WaitChildReturn) /\ WF_vars(ProcessExit)

(***************************************************************************)
(* Properties of background() and wait_child()                             *)
(***************************************************************************)
BackgroundDone == last.fn = "background"

RecoverableSpawnFault ==
    last.first = ExecFormatError /\ last.head = "#!"

OsSpawnFault == ~last.first.ok /\ last.first.exc \in OSErrors

\* C4: when the first spawn of background() fails with 'Exec format error'
\* and the file starts with '#!', background() spawns once more through a
\* shell and, the retry succeeding, returns the Popen object of the retried
\* process.
C4_ShebangRetryReturnsHandle ==
    (BackgroundDone /\ last.args # <<>> /\ RecoverableSpawnFault
        /\ Popen(split_command(last.args), last.retry).ok) =>
        /\ last.kind = "returned"
        /\ last.obj = "process"
        /\ last.spawns = 2
        /\ last.value \in 1..Len(procs)
        /\ procs[last.value].shell

\* C5: when the spawn of background() fails with an OSError that is not
\* the recoverable shebang case, there is no second spawn and the caller
\* receives that OSError.
C5_OtherSpawnFaultsPropagate ==
    (BackgroundDone /\ last.args # <<>>
        /\ Popen(split_command(last.args), last.first) = last.first
        /\ OsSpawnFault /\ ~RecoverableSpawnFault) =>
        /\ last.kind = "raised"
        /\ last.obj = "first"
        /\ last.exc = last.first.exc
        /\ last.spawns = 1

\* C7: a background() call without arguments raises ValueError and leaves
\* the process table and the handles as they were, without a spawn; a
\* wait_child() call on something that is no Popen object raises ValueError
\* without a wait, and leaves the process table as it was.
C7_InvalidInputHasNoEffect ==
    [][ /\ (last' # last /\ last'.fn = "background" /\ last'.args = <<>>) =>
              /\ last'.kind = "raised" /\ last'.exc = "ValueError"
              /\ last'.spawns = 0
              /\ procs' = procs /\ handles' = handles
        /\ (last' # last /\ last'.fn = "wait_child" /\ ~last'.handle.isPopen) =>
              /\ last'.kind = "raised" /\ last'.exc = "ValueError"
              /\ last'.waits = 0
              /\ procs' = procs /\ waiting' = 0 ]_vars

C7_Witness ==
    /\ last.fn = "wait_child" /\ ~last.handle.isPopen
    /\ last.handle.pid \in 1..Len(procs)
    /\ procs[last.handle.pid].state = "zombie"
    /\ last.exc = "ValueError"

\* C6: a wait_child() call on a Popen object returns only when the process
\* has terminated, the process is reaped when it returns, and it returns
\* None; a wait_child() call blocked on a process that has terminated
\* eventually returns.
C6_WaitChildReapsTerminated ==
    /\ [][ (last' # last /\ last'.fn = "wait_child" /\ last'.kind = "returned") =>
              /\ last'.handle.isPopen
              /\ procs[last'.handle.pid].state = "zombie"
              /\ procs'[last'.handle.pid].state = "reaped"
              /\ last'.obj = "None"
              /\ waiting' = 0 ]_vars
    /\ \A p \in 1..MaxProcs :
          (waiting = p /\ procs[p].state = "zombie")
              ~> (waiting = 0 /\ last.fn = "wait_child" /\ last.handle = Handle(p)
                  /\ last.kind = "returned" /\ procs[p].state = "reaped")

C6_Witness ==
    /\ last.fn = "wait_child" /\ last.kind = "returned"
    /\ last.handle.isPopen /\ last.blocked
    /\ procs[last.handle.pid].state = "reaped"
    /\ \E q \in 1..Len(procs) : procs[q].state = "running"

(***************************************************************************)
(* The argument list background() hands to Popen                           *)
(***************************************************************************)
\* the words of s: its maximal runs of characters that are no whitespace
WordStarts(s) ==
    {i \in 1..Len(s) : s[i] \notin Whitespace /\ (i = 1 \/ s[i - 1] \in Whitespace)}

WordEnd(s, i) ==
    CHOOSE j \in i..Len(s) :
        /\ \A k \in i..j : s[k] \notin Whitespace
        /\ j = Len(s) \/ s[j + 1] \in Whitespace

Words(s) ==
    LET n == Cardinality(WordStarts(s))
        start == CHOOSE f \in [1..n -> WordStarts(s)] :
                     \A a, b \in 1..n : a < b => f[a] < f[b]
    IN  [k \in 1..n |-> SubSeq(s, start[k], WordEnd(s, start[k]))]

Called == BackgroundDone /\ last.args # <<>>

\* C15 as claimed: a single argument that contains any whitespace character
\* is split into its words, and those are the argument list handed to
\* Popen; any other arguments are handed over as given.
C15_SingleArgWithWhitespaceIsSplit ==
    Called =>
        last.argv =
            IF Len(last.args) = 1
               /\ Range(Str(last.args[1])) \cap Whitespace # {}
            THEN Words(Str(last.args[1]))
            ELSE StrAll(last.args)

\* C15: a single argument that contains a space character is split into
\* its words at whitespace, and those are the argument list handed to
\* Popen; two or more arguments, or one without a space in it (a tab or a
\* newline does not count), are handed over as given.
C15_SingleArgWithSpaceIsSplit ==
    Called =>
        last.argv =
            IF Len(last.args) = 1 /\ " " \in Range(Str(last.args[1]))
            THEN Words(Str(last.args[1]))
            ELSE StrAll(last.args)

C15_Witness ==
    /\ Called
    /\ last.kind = "returned"
    /\ last.args = <<StrArg(<<"s", "\t", " ", "1">>)>>
    /\ last.argv = <<<<"s">>, <<"1">>>>
    /\ last.value \in handles

(***************************************************************************)
(* Who reaps the processes of background()                                 *)
(***************************************************************************)
BecomesReaped(p) == procs[p].state # "reaped" /\ procs'[p].state = "reaped"

\* the step is a wait_child() call on the handle of p that returns
WaitChildOnOwnHandle(p) ==
    /\ last'.fn = "wait_child"
    /\ last'.handle = Handle(p)
    /\ last'.kind = "returned"
    /\ waiting' = 0

\* the step is the Popen library at work: the Popen object of p is let go
\* of, or a background() call reaches Popen()
PopenLibrary(p) ==
    \/ p \in handles /\ last'.fn = "del" /\ last'.handle = Handle(p)
    \/ p \notin handles /\ last'.fn = "background" /\ last'.spawns >= 1

\* C16 as claimed: a process is reaped only in a wait_child() call on its
\* own handle, so a terminated process stays a zombie until then, and no
\* process is reaped more than once.
C16_ReapedOnlyByWaitChild ==
    [][ \A p \in 1..Len(procs) :
            /\ BecomesReaped(p) => WaitChildOnOwnHandle(p)
            /\ procs'[p].reaps <= 1 ]_vars

\* C16: a process whose Popen object the caller still holds is reaped only
\* in a wait_child() call on its own handle, so it stays a zombie until
\* then once it has terminated; a process whose Popen object the caller
\* has let go of is reaped by the Popen library, when the object is let go
\* of or in a later background() call that reaches Popen(); no process is
\* reaped more than once.
C16_HeldHandleReapedOnlyByWaitChild ==
    [][ \A p \in 1..Len(procs) :
            /\ BecomesReaped(p) =>
                   IF p \in handles'
                   THEN WaitChildOnOwnHandle(p)
                   ELSE PopenLibrary(p)
            /\ procs'[p].reaps <= 1
            /\ procs'[p].held <=> p \in handles' ]_vars

C16_Witness ==
    /\ last.fn = "background" /\ last.spawns >= 1
    /\ \E p, q \in 1..Len(procs) :
          /\ p \in handles /\ procs[p].state = "zombie"
          /\ q \notin handles /\ procs[q].state = "reaped"
          /\ procs[q].reaps = 1

(***************************************************************************)
(* get_singleton() and save_singleton()                                    *)
(*                                                                         *)
(* The table is the sequence of the pks of its records, in the order       *)
(* model.objects.all() yields them.  What record.save() does at each       *)
(* attempt is the database's choice: it saves, or raises OperationalError  *)
(* or another exception.                                                   *)
(***************************************************************************)
DbOutcome(kind, exc, value, attempts, rows) ==
    [kind |-> kind, exc |-> exc, value |-> value, attempts |-> attempts,
     rows |-> rows]

\* the extra records are left in the table
get_singleton_no_delete(rows) ==
    IF Len(rows) >= 1
    THEN DbOutcome("returned", "", rows[1], 0, rows)
    ELSE DbOutcome("raised", "DoesNotExist", 0, 0, rows)

\* value is the pk of the record returned
get_singleton(rows) ==
    IF Len(rows) = 1
    THEN DbOutcome("returned", "", rows[1], 0, rows)
    ELSE IF Len(rows) > 1
    THEN \* record = r for the first r, r.delete() for the others
         DbOutcome("returned", "", rows[1], 0, <<rows[1]>>)
    ELSE \* raise model.DoesNotExist()
         DbOutcome("raised", "DoesNotExist", 0, 0, rows)

\* record.save() that succeeds: an insert, or an update of the record
save(rows, record) ==
    IF record \in Range(rows) THEN rows ELSE Append(rows, record)

SaveOutcomes == {"ok", "OperationalError", "IntegrityError"}

\* the while loop of save(): attempt k is made with retries left over
RECURSIVE retrying(_, _, _)
retrying(retries, k, outcomes) ==
    LET left == retries - 1
    IN  IF outcomes[k] = "ok"
        THEN \* else: retrying = False
             [ok |-> TRUE, exc |-> "", attempts |-> k]
        ELSE IF outcomes[k] = "OperationalError"
        THEN IF left > 0
             THEN \* sleep(1)
                  retrying(left, k + 1, outcomes)
             ELSE \* raise
                  [ok |-> FALSE, exc |-> outcomes[k], attempts |-> k]
        ELSE \* an exception that is no OperationalError leaves the loop
             [ok |-> FALSE, exc |-> outcomes[k], attempts |-> k]

\* the inner save(): the first attempt, and the retries after any failure
save_attempts(maxtries, outcomes) ==
    IF outcomes[1] = "ok"
    THEN [ok |-> TRUE, exc |-> "", attempts |-> 1]
    ELSE retrying(maxtries - 1, 2, outcomes)

\* save_singleton() returns None; a save that raised leaves the table as
\* it was
save_singleton(rows, record, maxtries, outcomes) ==
    LET a == save_attempts(maxtries, outcomes)
        g == get_singleton(save(rows, record))
    IN  IF ~a.ok
        THEN DbOutcome("raised", a.exc, 0, a.attempts, rows)
        ELSE DbOutcome(g.kind, g.exc, 0, a.attempts, g.rows)

Tables ==
    {t \in SeqsUpTo(1..MaxRecords, MaxRecords) :
        \A i, j \in 1..Len(t) : i # j => t[i] # t[j]}

InitDb ==
    /\ records \in Tables
    /\ dbcall = NoDbCall
    /\ InitRunIdle
    /\ InitBgIdle
    /\ InitFmtIdle

GetSingletonCall ==
    /\ dbcall.fn = ""
    /\ LET o == get_singleton(records)
       IN  /\ records' = o.rows
           /\ dbcall' = [NoDbCall EXCEPT !.fn = "get_singleton",
                                         !.kind = o.kind, !.exc = o.exc,
                                         !.value = o.value,
                                         !.before = records]
    /\ UNCHANGED <<runVars, bgVars, fmtVars>>

SaveSingletonCall ==
    /\ dbcall.fn = ""
    /\ \E record \in 1..MaxRecords, maxtries \in 1..MaxTries :
       \E outcomes \in [1..(MaxTries + 1) -> SaveOutcomes] :
          LET o == save_singleton(records, record, maxtries, outcomes)
          IN  /\ records' = o.rows
              /\ dbcall' = [NoDbCall EXCEPT !.fn = "save_singleton",
                                            !.kind = o.kind, !.exc = o.exc,
                                            !.record = record,
                                            !.maxtries = maxtries,
                                            !.attempts = o.attempts,
                                            !.outcomes =
                                                SubSeq(outcomes, 1, o.attempts),
                                            !.before = records]
    /\ UNCHANGED <<runVars, bgVars, fmtVars>>

NextDb == GetSingletonCall \/ SaveSingletonCall

SpecDb == InitDb /\ [][NextDb]_vars

(***************************************************************************)
(* Properties of get_singleton() and save_singleton()                      *)
(***************************************************************************)
SaveDone == dbcall.fn = "save_singleton"
GetDone == dbcall.fn = "get_singleton"

EveryAttemptFailed ==
    \A k \in 1..dbcall.attempts : dbcall.outcomes[k] = "OperationalError"

\* C17: a save_singleton() call makes at most maxtries attempts to save;
\* when every attempt raised OperationalError, it raises OperationalError
\* after exactly maxtries attempts; and an attempt that succeeds is the
\* last one.
C17_AtMostMaxtriesAttempts ==
    SaveDone =>
        /\ dbcall.attempts <= dbcall.maxtries
        /\ EveryAttemptFailed =>
               /\ dbcall.kind = "raised"
               /\ dbcall.exc = "OperationalError"
               /\ dbcall.attempts = dbcall.maxtries
        /\ \A k \in 1..dbcall.attempts :
               dbcall.outcomes[k] = "ok" => k = dbcall.attempts

\* C18: a get_singleton() call that returns leaves exactly one record in
\* the table, the first of those that were there, and returns it; on an
\* empty table it raises DoesNotExist and the table stays empty; and a
\* save_singleton() call that returns leaves exactly one record.
C18_SingletonLeavesOneRecord ==
    /\ (GetDone /\ dbcall.kind = "returned") =>
           /\ Len(dbcall.before) >= 1
           /\ dbcall.value = dbcall.before[1]
           /\ records = <<dbcall.value>>
    /\ (GetDone /\ dbcall.kind # "returned") =>
           /\ dbcall.before = <<>>
           /\ dbcall.kind = "raised" /\ dbcall.exc = "DoesNotExist"
           /\ records = dbcall.before
    /\ (SaveDone /\ dbcall.kind = "returned") => Len(records) = 1

C18_Witness ==
    /\ GetDone /\ dbcall.kind = "returned"
    /\ Len(dbcall.before) > 1
    /\ records = <<dbcall.before[1]>>

====
